---- MODULE Spec2Model ----
(***************************************************************************)
(* Model of the geometric primitive core of the ray-tracing kernels:      *)
(*   src/kernels/common/scene_triangle_mesh.h  (TriangleMesh)             *)
(*   src/kernels/common/scene_curves.h         (CurveGeometry)            *)
(*                                                                         *)
(* Numbers.  A float is modelled as an exact extended rational <<n, d>>:   *)
(* d > 0 is the finite value n/d in lowest terms, and <<0, 0>> is the      *)
(* non-finite value (NaN).  Rounding is not modelled.  A Vec3fa is         *)
(* modelled by one of its axes: every vector operation the two headers    *)
(* use (min, max, lerp, madd, +, -) acts on each axis independently.       *)
(***************************************************************************)
EXTENDS Integers, Sequences, FiniteSets, TLC

VARIABLES
  numTimeSteps,  \* Geometry::numTimeSteps
  triangles,     \* TriangleMesh::triangles, a sequence of <<v0, v1, v2>>
  vertices,      \* TriangleMesh::vertices, [time step -> [vertex -> float]]
  vertices0,     \* TriangleMesh::vertices0, the cached view of vertices[0]
  writes,        \* number of buffer updates made so far
  garbage,       \* what a read outside a buffer yields
  cvertices,     \* CurveGeometry::vertices
  cnormals,      \* CurveGeometry::normals
  ctangents,     \* CurveGeometry::tangents
  call,          \* the last completed query, with its result
  writer,        \* position of the committing thread
  readers        \* position and partial result of each query thread

vars == <<numTimeSteps, triangles, vertices, vertices0, writes, garbage,
          cvertices, cnormals, ctangents, call, writer, readers>>

meshVars  == <<numTimeSteps, triangles, vertices, vertices0, writes>>
curveVars == <<cvertices, cnormals, ctangents>>

-----------------------------------------------------------------------------
(* Bounds of the model *)

MaxIndex == 3          \* sharedEdge: vertex indices are 0..MaxIndex
MaxTimeSteps == 3      \* meshes and curves have 1..MaxTimeSteps time steps
MaxMapTimeSteps == 4   \* the time mapping is checked for 1..MaxMapTimeSteps
MaxDen == 4            \* times are fractions with denominator 1..MaxDen
MaxWrites == 2         \* mesh buffer updates per behaviour
MaxCurveWrites == 1    \* curve buffer updates per behaviour
NumThreads == 2        \* concurrent query threads

-----------------------------------------------------------------------------
(* Float arithmetic (exact) *)

NaN == <<0, 0>>

Abs(x) == IF x < 0 THEN -x ELSE x

RECURSIVE GCD(_, _)
GCD(a, b) == IF b = 0 THEN a ELSE GCD(b, a % b)

\* n/d in lowest terms, d # 0
Frac(n, d) ==
  LET g == GCD(Abs(n), Abs(d))
      s == IF d < 0 THEN -1 ELSE 1
  IN  <<(s * n) \div g, (s * d) \div g>>

Float(i) == <<i, 1>>

isfinite(a) == a[2] # 0

fadd(a, b) == IF isfinite(a) /\ isfinite(b)
              THEN Frac(a[1] * b[2] + b[1] * a[2], a[2] * b[2]) ELSE NaN

fsub(a, b) == IF isfinite(a) /\ isfinite(b)
              THEN Frac(a[1] * b[2] - b[1] * a[2], a[2] * b[2]) ELSE NaN

fmul(a, b) == IF isfinite(a) /\ isfinite(b)
              THEN Frac(a[1] * b[1], a[2] * b[2]) ELSE NaN

\* x/0 is infinite or NaN: non-finite
fdiv(a, b) == IF isfinite(a) /\ isfinite(b) /\ b[1] # 0
              THEN Frac(a[1] * b[2], a[2] * b[1]) ELSE NaN

\* every comparison with a NaN is false
flt(a, b) == isfinite(a) /\ isfinite(b) /\ a[1] * b[2] < b[1] * a[2]
fle(a, b) == isfinite(a) /\ isfinite(b) /\ a[1] * b[2] <= b[1] * a[2]

\* min(a,b) = a < b ? a : b and max(a,b) = a > b ? a : b (the SSE min/max)
fmin(a, b) == IF flt(a, b) THEN a ELSE b
fmax(a, b) == IF flt(b, a) THEN a ELSE b

min3(a, b, c) == fmin(fmin(a, b), c)
max3(a, b, c) == fmax(fmax(a, b), c)

\* floor and ceil of a finite float, as an int
floor(a) == a[1] \div a[2]
ceil(a)  == -((-a[1]) \div a[2])

\* madd(a,b,c) = a*b + c
madd(a, b, c) == fadd(fmul(a, b), c)

\* lerp(v0,v1,t) = madd(1-t, v0, t*v1)
lerp(v0, v1, t) == madd(fsub(Float(1), t), v0, fmul(t, v1))

\* A BBox is [lower, upper]
BBox(lo, up) == [lower |-> lo, upper |-> up]
lerpBox(b0, b1, t) == BBox(lerp(b0.lower, b1.lower, t), lerp(b0.upper, b1.upper, t))

isvalid(v) == isfinite(v)

\* an int converted to size_t: a negative int becomes a huge unsigned value
\* (2^30 stands for 2^64; every step index of the model is far below it)
SizeWrap == 2 ^ 30
ToSize(i) == IF i < 0 THEN SizeWrap + i ELSE i

-----------------------------------------------------------------------------
(* Topology analysis *)

\* an Edge key that keeps only the low word (the smaller index)
EdgeLowWord(v0, v1) == IF v0 < v1 THEN <<0, v0>> ELSE <<0, v1>>

\* Edge(v0,v1): the key <<high word, low word>> of the 64-bit value e
Edge(v0, v1) == IF v0 < v1 THEN <<v1, v0>> ELSE <<v0, v1>>

pair_order(tri0_vtx_index0, tri0_vtx_index1, tri0_vtx_index2, tri1_vtx_index) ==
  tri0_vtx_index0 + tri0_vtx_index1 * 256 + tri0_vtx_index2 * 65536
    + tri1_vtx_index * 16777216

\* sharedEdge whose first test returns the wrong opposite vertex of tri1
sharedEdgeWrongOpposite(tri0, tri1) ==
  LET tri0_edge0 == Edge(tri0[1], tri0[2])
      tri0_edge1 == Edge(tri0[2], tri0[3])
      tri0_edge2 == Edge(tri0[3], tri0[1])
      tri1_edge0 == Edge(tri1[1], tri1[2])
      tri1_edge1 == Edge(tri1[2], tri1[3])
      tri1_edge2 == Edge(tri1[3], tri1[1])
  IN  IF tri0_edge0 = tri1_edge0 THEN pair_order(1, 2, 0, 0)
      ELSE IF tri0_edge1 = tri1_edge0 THEN pair_order(2, 0, 1, 2)
      ELSE IF tri0_edge2 = tri1_edge0 THEN pair_order(0, 1, 2, 2)
      ELSE IF tri0_edge0 = tri1_edge1 THEN pair_order(1, 2, 0, 0)
      ELSE IF tri0_edge1 = tri1_edge1 THEN pair_order(2, 0, 1, 0)
      ELSE IF tri0_edge2 = tri1_edge1 THEN pair_order(0, 1, 2, 0)
      ELSE IF tri0_edge0 = tri1_edge2 THEN pair_order(1, 2, 0, 1)
      ELSE IF tri0_edge1 = tri1_edge2 THEN pair_order(2, 0, 1, 1)
      ELSE IF tri0_edge2 = tri1_edge2 THEN pair_order(0, 1, 2, 1)
      ELSE -1

\* sharedEdge with the nine tests ordered by tri0's edge first
sharedEdgeTri0Outer(tri0, tri1) ==
  LET tri0_edge0 == Edge(tri0[1], tri0[2])
      tri0_edge1 == Edge(tri0[2], tri0[3])
      tri0_edge2 == Edge(tri0[3], tri0[1])
      tri1_edge0 == Edge(tri1[1], tri1[2])
      tri1_edge1 == Edge(tri1[2], tri1[3])
      tri1_edge2 == Edge(tri1[3], tri1[1])
  IN  IF tri0_edge0 = tri1_edge0 THEN pair_order(1, 2, 0, 2)
      ELSE IF tri0_edge0 = tri1_edge1 THEN pair_order(1, 2, 0, 0)
      ELSE IF tri0_edge0 = tri1_edge2 THEN pair_order(1, 2, 0, 1)
      ELSE IF tri0_edge1 = tri1_edge0 THEN pair_order(2, 0, 1, 2)
      ELSE IF tri0_edge1 = tri1_edge1 THEN pair_order(2, 0, 1, 0)
      ELSE IF tri0_edge1 = tri1_edge2 THEN pair_order(2, 0, 1, 1)
      ELSE IF tri0_edge2 = tri1_edge0 THEN pair_order(0, 1, 2, 2)
      ELSE IF tri0_edge2 = tri1_edge1 THEN pair_order(0, 1, 2, 0)
      ELSE IF tri0_edge2 = tri1_edge2 THEN pair_order(0, 1, 2, 1)
      ELSE -1

\* a triangle is <<v[0], v[1], v[2]>>
sharedEdge(tri0, tri1) ==
  LET tri0_edge0 == Edge(tri0[1], tri0[2])
      tri0_edge1 == Edge(tri0[2], tri0[3])
      tri0_edge2 == Edge(tri0[3], tri0[1])
      tri1_edge0 == Edge(tri1[1], tri1[2])
      tri1_edge1 == Edge(tri1[2], tri1[3])
      tri1_edge2 == Edge(tri1[3], tri1[1])
  IN  IF tri0_edge0 = tri1_edge0 THEN pair_order(1, 2, 0, 2)
      ELSE IF tri0_edge1 = tri1_edge0 THEN pair_order(2, 0, 1, 2)
      ELSE IF tri0_edge2 = tri1_edge0 THEN pair_order(0, 1, 2, 2)
      ELSE IF tri0_edge0 = tri1_edge1 THEN pair_order(1, 2, 0, 0)
      ELSE IF tri0_edge1 = tri1_edge1 THEN pair_order(2, 0, 1, 0)
      ELSE IF tri0_edge2 = tri1_edge1 THEN pair_order(0, 1, 2, 0)
      ELSE IF tri0_edge0 = tri1_edge2 THEN pair_order(1, 2, 0, 1)
      ELSE IF tri0_edge1 = tri1_edge2 THEN pair_order(2, 0, 1, 1)
      ELSE IF tri0_edge2 = tri1_edge2 THEN pair_order(0, 1, 2, 1)
      ELSE -1

-----------------------------------------------------------------------------
(* Time sampling engine *)

\* Geometry::fnumTimeSegments: numTimeSteps - 1 as a float
fnumTimeSegments == Float(numTimeSteps - 1)

\* clamp(x,lower,upper) = max(min(x,upper),lower)
clamp(x, lower, upper) == fmax(fmin(x, upper), lower)

\* getTimeSegment(time, numTimeSegments, ftime): the segment and the fraction
getTimeSegment(time, numTimeSegments) ==
  LET t          == clamp(time, Float(0), Float(1))
      timeScaled == fmul(t, numTimeSegments)
      itimef     == clamp(Float(floor(timeScaled)), Float(0),
                          fsub(numTimeSegments, Float(1)))
  IN  [itime |-> floor(itimef), ftime |-> fsub(timeScaled, itimef)]

\* the time prologue with the number of steps passed for the number of segments
TimeSampleOfSteps(time) ==
  LET ts == getTimeSegment(time, Float(numTimeSteps))
  IN  [itime0 |-> ts.itime + 0, itime1 |-> ts.itime + 1, ftime |-> ts.ftime]

\* the prologue of every query at a continuous time: the two time steps read
\* (itime+0 and itime+1) and the blend fraction
TimeSample(time) ==
  LET ts == getTimeSegment(time, fnumTimeSegments)
  IN  [itime0 |-> ts.itime + 0, itime1 |-> ts.itime + 1, ftime |-> ts.ftime]

\* times: the fractions n/d with d in 1..MaxDen between -2 and 3
TimeValues == UNION {{Frac(n, d) : n \in (-2 * d)..(3 * d)} : d \in 1..MaxDen}

-----------------------------------------------------------------------------
(* Triangle mesh: vertex access and per-step bounds *)

numVertices == Cardinality(DOMAIN vertices[0])

\* triangle(i)
triangle(i) == triangles[i + 1]

\* vertex(i) that reads the last time step
vertexLastStep(i) ==
  IF i \in DOMAIN vertices[numTimeSteps - 1]
  THEN vertices[numTimeSteps - 1][i] ELSE garbage

\* vertex(i): the i'th vertex of the first time step, through the cached view;
\* a read outside the buffer yields garbage
vertex(i) == IF i \in DOMAIN vertices0 THEN vertices0[i] ELSE garbage

\* vertex(i, itime): the i'th vertex of the itime'th time step
vertexAt(i, itime) ==
  IF itime \in DOMAIN vertices /\ i \in DOMAIN vertices[itime]
  THEN vertices[itime][i] ELSE garbage

\* bounds(i) that forgets the third vertex
bounds0TwoVertices(i) ==
  LET tri == triangle(i)
      v0 == vertex(tri[1])
      v1 == vertex(tri[2])
  IN  BBox(fmin(v0, v1), fmax(v0, v1))

\* bounds(size_t i): the bounds at the first time step, from the cached view
bounds0(i) ==
  LET tri == triangle(i)
      v0 == vertex(tri[1])
      v1 == vertex(tri[2])
      v2 == vertex(tri[3])
  IN  BBox(min3(v0, v1, v2), max3(v0, v1, v2))

\* bounds(i, itime) that takes the upper bound over two vertices only
boundsTwoVertices(i, itime) ==
  LET tri == triangle(i)
      v0 == vertexAt(tri[1], itime)
      v1 == vertexAt(tri[2], itime)
      v2 == vertexAt(tri[3], itime)
  IN  BBox(min3(v0, v1, v2), fmax(v0, v1))

\* bounds(size_t i, size_t itime)
bounds(i, itime) ==
  LET tri == triangle(i)
      v0 == vertexAt(tri[1], itime)
      v1 == vertexAt(tri[2], itime)
      v2 == vertexAt(tri[3], itime)
  IN  BBox(min3(v0, v1, v2), max3(v0, v1, v2))

\* bounds(size_t i, float time)
boundsTime(i, time) ==
  LET s  == TimeSample(time)
      b0 == bounds(i, s.itime0)
      b1 == bounds(i, s.itime1)
  IN  lerpBox(b0, b1, s.ftime)

(* Validity *)

\* the loop of valid(i, itime_lower, itime_upper), from step itime on; reads
\* collects the <<vertex, step>> pairs read
RECURSIVE validLoop(_, _, _, _)
validLoop(tri, itime, itime_upper, reads) ==
  IF ~(itime <= itime_upper) THEN [ret |-> TRUE, reads |-> reads]
  ELSE LET v0 == vertexAt(tri[1], itime)
           v1 == vertexAt(tri[2], itime)
           v2 == vertexAt(tri[3], itime)
           rd == reads \cup {<<tri[1], itime>>, <<tri[2], itime>>, <<tri[3], itime>>}
       IN  IF ~isvalid(v0) \/ ~isvalid(v1) \/ ~isvalid(v2)
           THEN [ret |-> FALSE, reads |-> rd]
           ELSE validLoop(tri, itime + 1, itime_upper, rd)

\* valid without the test of the third vertex index
validNoThirdIndexTest(i, itime_lower, itime_upper) ==
  LET tri == triangle(i)
  IN  IF tri[1] >= numVertices THEN [ret |-> FALSE, reads |-> {}]
      ELSE IF tri[2] >= numVertices THEN [ret |-> FALSE, reads |-> {}]
      ELSE validLoop(tri, itime_lower, itime_upper, {})

\* valid(size_t i, size_t itime_lower, size_t itime_upper)
valid(i, itime_lower, itime_upper) ==
  LET tri == triangle(i)
  IN  IF tri[1] >= numVertices THEN [ret |-> FALSE, reads |-> {}]
      ELSE IF tri[2] >= numVertices THEN [ret |-> FALSE, reads |-> {}]
      ELSE IF tri[3] >= numVertices THEN [ret |-> FALSE, reads |-> {}]
      ELSE validLoop(tri, itime_lower, itime_upper, {})

\* valid(size_t i, size_t itime)
valid1(i, itime) == valid(i, itime, itime)

(* Build bounds, all time steps *)

\* buildBounds that stores the bound before it validates the triangle
buildBoundsStoreFirst(i, hasBox, old) ==
  LET tri == triangle(i)
      box == IF hasBox THEN bounds0(i) ELSE old
  IN  IF tri[1] >= numVertices \/ tri[2] >= numVertices \/ tri[3] >= numVertices
      THEN [ret |-> FALSE, bbox |-> box]
      ELSE [ret |-> validLoop(tri, 0, numTimeSteps - 1, {}).ret, bbox |-> box]

\* buildBounds(size_t i, BBox3fa* bbox): hasBox tells whether bbox is
\* non-null, old is what *bbox held; the result holds *bbox afterwards
buildBounds(i, hasBox, old) ==
  LET tri == triangle(i)
  IN  IF tri[1] >= numVertices THEN [ret |-> FALSE, bbox |-> old]
      ELSE IF tri[2] >= numVertices THEN [ret |-> FALSE, bbox |-> old]
      ELSE IF tri[3] >= numVertices THEN [ret |-> FALSE, bbox |-> old]
      ELSE IF ~validLoop(tri, 0, numTimeSteps - 1, {}).ret
           THEN [ret |-> FALSE, bbox |-> old]
      ELSE [ret |-> TRUE, bbox |-> IF hasBox THEN bounds0(i) ELSE old]

(* Linear bounds over a time range [lower, upper] *)

\* the interior-step loop with the corrections not clamped at zero
RECURSIVE linearBoundsLoopUnclamped(_, _, _, _, _, _)
linearBoundsLoopUnclamped(primID, lower, upper, i, iupper, lb) ==
  IF ~(i <= ToSize(iupper)) THEN lb
  ELSE LET f  == fdiv(fsub(fdiv(Float(i), fnumTimeSegments), lower),
                      fsub(upper, lower))
           bt == lerpBox(lb.b0, lb.b1, f)
           bi == bounds(primID, i)
           dlower == fsub(bi.lower, bt.lower)
           dupper == fsub(bi.upper, bt.upper)
       IN  linearBoundsLoopUnclamped(primID, lower, upper, i + 1, iupper,
             [b0 |-> BBox(fadd(lb.b0.lower, dlower), fadd(lb.b0.upper, dupper)),
              b1 |-> BBox(fadd(lb.b1.lower, dlower), fadd(lb.b1.upper, dupper))])

\* the interior-step loop with the upper correction applied to b0 only
RECURSIVE linearBoundsLoopOneSided(_, _, _, _, _, _)
linearBoundsLoopOneSided(primID, lower, upper, i, iupper, lb) ==
  IF ~(i <= ToSize(iupper)) THEN lb
  ELSE LET f  == fdiv(fsub(fdiv(Float(i), fnumTimeSegments), lower),
                      fsub(upper, lower))
           bt == lerpBox(lb.b0, lb.b1, f)
           bi == bounds(primID, i)
           dlower == fmin(fsub(bi.lower, bt.lower), Float(0))
           dupper == fmax(fsub(bi.upper, bt.upper), Float(0))
       IN  linearBoundsLoopOneSided(primID, lower, upper, i + 1, iupper,
             [b0 |-> BBox(fadd(lb.b0.lower, dlower), fadd(lb.b0.upper, dupper)),
              b1 |-> BBox(fadd(lb.b1.lower, dlower), lb.b1.upper)])

\* the loop "for (size_t i = ilower; i <= iupper; i++)" of linearBounds, from
\* step i on; lb holds b0 and b1
RECURSIVE linearBoundsLoop(_, _, _, _, _, _)
linearBoundsLoop(primID, lower, upper, i, iupper, lb) ==
  IF ~(i <= ToSize(iupper)) THEN lb
  ELSE LET f  == fdiv(fsub(fdiv(Float(i), fnumTimeSegments), lower),
                      fsub(upper, lower))
           bt == lerpBox(lb.b0, lb.b1, f)
           bi == bounds(primID, i)
           dlower == fmin(fsub(bi.lower, bt.lower), Float(0))
           dupper == fmax(fsub(bi.upper, bt.upper), Float(0))
       IN  linearBoundsLoop(primID, lower, upper, i + 1, iupper,
             [b0 |-> BBox(fadd(lb.b0.lower, dlower), fadd(lb.b0.upper, dupper)),
              b1 |-> BBox(fadd(lb.b1.lower, dlower), fadd(lb.b1.upper, dupper))])

\* linearBounds(size_t primID, const BBox1f& time_range)
linearBounds(primID, lower, upper) ==
  LET b0 == boundsTime(primID, lower)
      b1 == boundsTime(primID, upper)
      ilower == ceil(fmul(lower, fnumTimeSegments))
      iupper == floor(fmul(upper, fnumTimeSegments))
  IN  linearBoundsLoop(primID, lower, upper, ToSize(ilower), iupper,
                       [b0 |-> b0, b1 |-> b1])

\* the time steps linearBounds(primID, time_range) reads
linearBoundsSteps(lower, upper) ==
  LET s0 == TimeSample(lower)
      s1 == TimeSample(upper)
      ilower == ceil(fmul(lower, fnumTimeSegments))
      iupper == floor(fmul(upper, fnumTimeSegments))
  IN  {s0.itime0, s0.itime1, s1.itime0, s1.itime1}
        \cup (ToSize(ilower)..ToSize(iupper))

\* linearBounds(size_t i, const BBox1f& time_range, LBBox3fa& bbox): old is
\* what bbox held; steps are the time steps read
linearBoundsChecked(i, lower, upper, old) ==
  LET itime_lower == floor(fmul(fmul(Frac(10001, 10000), lower), fnumTimeSegments))
      itime_upper == ceil(fmul(fmul(Frac(9999, 10000), upper), fnumTimeSegments))
      v == valid(i, ToSize(itime_lower), ToSize(itime_upper))
      vsteps == {rd[2] : rd \in v.reads}
  IN  IF ~v.ret
      THEN [ret |-> FALSE, bbox |-> old, steps |-> vsteps,
            checked |-> <<itime_lower, itime_upper>>]
      ELSE [ret |-> TRUE, bbox |-> linearBounds(i, lower, upper),
            steps |-> vsteps \cup linearBoundsSteps(lower, upper),
            checked |-> <<itime_lower, itime_upper>>]

-----------------------------------------------------------------------------
(* Curves: gathers of control points, normals and tangents *)

\* vertex(i, itime), normal(i, itime), tangent(i, itime) of CurveGeometry
curveVertex(i, itime) ==
  IF itime \in DOMAIN cvertices /\ i \in DOMAIN cvertices[itime]
  THEN cvertices[itime][i] ELSE garbage

curveNormal(i, itime) ==
  IF itime \in DOMAIN cnormals /\ i \in DOMAIN cnormals[itime]
  THEN cnormals[itime][i] ELSE garbage

curveTangent(i, itime) ==
  IF itime \in DOMAIN ctangents /\ i \in DOMAIN ctangents[itime]
  THEN ctangents[itime][i] ELSE garbage

\* gather(p0, p1, p2, p3, i, itime)
gather(i, itime) ==
  <<curveVertex(i + 0, itime), curveVertex(i + 1, itime),
    curveVertex(i + 2, itime), curveVertex(i + 3, itime)>>

\* gather(p0, p1, p2, p3, n0, n1, i, itime)
gatherN(i, itime) ==
  <<curveVertex(i + 0, itime), curveVertex(i + 1, itime),
    curveVertex(i + 2, itime), curveVertex(i + 3, itime),
    curveNormal(i + 0, itime), curveNormal(i + 1, itime)>>

\* gather_hermite(p0, t0, p1, t1, i, itime)
gather_hermite(i, itime) ==
  <<curveVertex(i + 0, itime), curveTangent(i + 0, itime),
    curveVertex(i + 1, itime), curveTangent(i + 1, itime)>>

\* gather_hermite(p0, t0, n0, p1, t1, n1, i, itime)
gather_hermiteN(i, itime) ==
  <<curveVertex(i + 0, itime), curveTangent(i + 0, itime),
    curveNormal(i + 0, itime),
    curveVertex(i + 1, itime), curveTangent(i + 1, itime),
    curveNormal(i + 1, itime)>>

\* the blend with the two weights exchanged
blendSwapped(ftime, a, b) ==
  LET t0 == fsub(Float(1), ftime)
      t1 == ftime
  IN  [k \in DOMAIN a |-> madd(t1, a[k], fmul(t0, b[k]))]

\* p = madd(Vec3fa(t0), a, t1*b) with t0 = 1.0f - ftime and t1 = ftime, for
\* every gathered value
blend(ftime, a, b) ==
  LET t0 == fsub(Float(1), ftime)
      t1 == ftime
  IN  [k \in DOMAIN a |-> madd(t0, a[k], fmul(t1, b[k]))]

\* gather(p0, p1, p2, p3, i, float time)
gatherTime(i, time) ==
  LET s == TimeSample(time)
  IN  blend(s.ftime, gather(i, s.itime0), gather(i, s.itime1))

\* gather(p0, p1, p2, p3, n0, n1, i, float time)
gatherNTime(i, time) ==
  LET s == TimeSample(time)
  IN  blend(s.ftime, gatherN(i, s.itime0), gatherN(i, s.itime1))

\* gather_hermite(p0, t0, p1, t1, i, float time)
gather_hermiteTime(i, time) ==
  LET s == TimeSample(time)
  IN  blend(s.ftime, gather_hermite(i, s.itime0), gather_hermite(i, s.itime1))

\* gather_hermite(p0, t0, n0, p1, t1, n1, i, float time)
gather_hermiteNTime(i, time) ==
  LET s == TimeSample(time)
  IN  blend(s.ftime, gather_hermiteN(i, s.itime0), gather_hermiteN(i, s.itime1))

GatherKinds == {"gather", "gatherN", "gather_hermite", "gather_hermiteN"}

\* the gather of a kind at a time step, and at a continuous time
GatherStep(kind, i, itime) ==
  CASE kind = "gather"          -> gather(i, itime)
    [] kind = "gatherN"         -> gatherN(i, itime)
    [] kind = "gather_hermite"  -> gather_hermite(i, itime)
    [] kind = "gather_hermiteN" -> gather_hermiteN(i, itime)

GatherTime(kind, i, time) ==
  CASE kind = "gather"          -> gatherTime(i, time)
    [] kind = "gatherN"         -> gatherNTime(i, time)
    [] kind = "gather_hermite"  -> gather_hermiteTime(i, time)
    [] kind = "gather_hermiteN" -> gather_hermiteNTime(i, time)

-----------------------------------------------------------------------------
(* States outside the part a specification exercises *)

NoCall == [op |-> "none"]

NoMesh ==
  /\ numTimeSteps = 1
  /\ vertices = <<>>
  /\ vertices0 = <<>>
  /\ writes = 0
  /\ garbage = NaN

NoCurve ==
  /\ cvertices = <<>>
  /\ cnormals = <<>>
  /\ ctangents = <<>>

NoThreads ==
  /\ writer = "idle"
  /\ readers = <<>>

-----------------------------------------------------------------------------
(* SpecEdge: sharedEdge applied to every pair of triangles over 0..MaxIndex *)

TriangleInputs == (0..MaxIndex) \X (0..MaxIndex) \X (0..MaxIndex)

InitEdge ==
  /\ triangles \in TriangleInputs \X TriangleInputs
  /\ NoMesh /\ NoCurve /\ NoThreads
  /\ call = NoCall

SharedEdgeCall ==
  /\ call.op = "none"
  /\ call' = [op |-> "sharedEdge", ret |-> sharedEdge(triangles[1], triangles[2])]
  /\ UNCHANGED <<meshVars, garbage, curveVars, writer, readers>>

NextEdge == SharedEdgeCall

SpecEdge == InitEdge /\ [][NextEdge]_vars

(* Claims about sharedEdge *)

VertexSet(tri) == {tri[1], tri[2], tri[3]}
SharedVertices(tri0, tri1) == VertexSet(tri0) \cap VertexSet(tri1)
Repeats(tri, v) == Cardinality({k \in 1..3 : tri[k] = v}) >= 2
Distinct3(tri) == Cardinality(VertexSet(tri)) = 3
EdgeSets(tri) == {{tri[1], tri[2]}, {tri[2], tri[3]}, {tri[3], tri[1]}}
Byte(r, k) == (r \div (256 ^ k)) % 256
Rotations == {<<0, 1, 2>>, <<1, 2, 0>>, <<2, 0, 1>>}

\* C2 (as stated): sharedEdge returns -1 for every pair of triangles sharing
\* 0 or 1 vertices and for every pair with the same indices in the same
\* order, repeated indices included.
C2_Original ==
  call.op = "sharedEdge" =>
    ((Cardinality(SharedVertices(triangles[1], triangles[2])) <= 1
       \/ triangles[1] = triangles[2])
      => call.ret = -1)

\* C2 (amended): sharedEdge returns -1 for every pair of triangles sharing no
\* vertex, and for every pair sharing exactly one vertex unless both
\* triangles repeat that vertex; for two triangles with the same indices in
\* the same order it returns the match of edge 0 with edge 0,
\* pair_order(1,2,0,2), not -1.
C2_NoSharedEdge ==
  call.op = "sharedEdge" =>
    LET tri0 == triangles[1]
        tri1 == triangles[2]
        sh   == SharedVertices(tri0, tri1)
    IN  /\ Cardinality(sh) = 0 => call.ret = -1
        /\ (Cardinality(sh) = 1
             /\ ~(\E v \in sh : Repeats(tri0, v) /\ Repeats(tri1, v)))
            => call.ret = -1
        /\ tri0 = tri1 => call.ret = pair_order(1, 2, 0, 2)

C2_Witness ==
  /\ call.op = "sharedEdge"
  /\ Cardinality(SharedVertices(triangles[1], triangles[2])) = 1
  /\ Repeats(triangles[1], triangles[1][1])
  /\ call.ret = -1

\* C3: a non-sentinel result for two triangles with three distinct vertices
\* each decodes to a rotation (r0,r1,r2) of (0,1,2) and an index k in 0..2
\* such that {tri0.v[r0], tri0.v[r2]} is an edge of tri1 and tri1.v[k] is
\* not on that edge; for T0=(0,1,2), T1=(1,0,3) the result is non-sentinel
\* and the decoded opposite vertex of T1 is 3.
C3_SharedEdgeDecodes ==
  call.op = "sharedEdge" =>
    LET tri0 == triangles[1]
        tri1 == triangles[2]
        r0 == Byte(call.ret, 0)
        r1 == Byte(call.ret, 1)
        r2 == Byte(call.ret, 2)
        k  == Byte(call.ret, 3)
    IN  /\ (call.ret # -1 /\ Distinct3(tri0) /\ Distinct3(tri1)) =>
             /\ <<r0, r1, r2>> \in Rotations
             /\ k \in 0..2
             /\ {tri0[r0 + 1], tri0[r2 + 1]} \in EdgeSets(tri1)
             /\ tri1[k + 1] \notin {tri0[r0 + 1], tri0[r2 + 1]}
        /\ (tri0 = <<0, 1, 2>> /\ tri1 = <<1, 0, 3>>) =>
             (call.ret # -1 /\ tri1[k + 1] = 3)

C3_Witness ==
  /\ call.op = "sharedEdge"
  /\ triangles = <<(<<0, 1, 2>>), (<<1, 0, 3>>)>>
  /\ call.ret # -1

\* edge k of a triangle: (v[k], v[(k+1) mod 3]), as an unordered pair
EdgeOf(tri, k) == {tri[k + 1], tri[((k + 1) % 3) + 1]}

\* the pairs <<a, b>> with edge a of tri0 matching edge b of tri1
MatchingPairs(tri0, tri1) ==
  {p \in (0..2) \X (0..2) : EdgeOf(tri0, p[1]) = EdgeOf(tri1, p[2])}

\* the result for the match of edge a of tri0 with edge b of tri1: the
\* rotation of tri0 that ends with the first vertex of edge a, and the
\* vertex of tri1 not on edge b
ResultOfPair(a, b) == pair_order((a + 1) % 3, (a + 2) % 3, a, (b + 2) % 3)

\* C11 (as stated): when edge pairs match, the result is the one of the
\* matching pair with the lowest tri0 edge index and, among those, the
\* lowest tri1 edge index.
C11_Original ==
  call.op = "sharedEdge" =>
    LET mp == MatchingPairs(triangles[1], triangles[2])
    IN  mp # {} =>
          \E p \in mp :
            /\ \A q \in mp : p[1] < q[1] \/ (p[1] = q[1] /\ p[2] <= q[2])
            /\ call.ret = ResultOfPair(p[1], p[2])

\* C11 (amended): the nine tests run with tri1's edges as the outer loop and
\* tri0's edges as the inner loop: when edge pairs match, the result is the
\* one of the matching pair with the lowest tri1 edge index and, among
\* those, the lowest tri0 edge index; with no matching pair it is -1.
C11_SharedEdgePriority ==
  call.op = "sharedEdge" =>
    LET mp == MatchingPairs(triangles[1], triangles[2])
    IN  /\ mp = {} => call.ret = -1
        /\ mp # {} =>
              \E p \in mp :
                /\ \A q \in mp : p[2] < q[2] \/ (p[2] = q[2] /\ p[1] <= q[1])
                /\ call.ret = ResultOfPair(p[1], p[2])

\* two triangles with the same vertices in opposite order: three pairs
\* match, and the two orders pick different ones
C11_Witness ==
  /\ call.op = "sharedEdge"
  /\ triangles = <<(<<0, 1, 2>>), (<<2, 1, 0>>)>>
  /\ Cardinality(MatchingPairs(triangles[1], triangles[2])) = 3
  /\ call.ret = pair_order(2, 0, 1, 2)

-----------------------------------------------------------------------------
(* SpecTime: the time prologue applied to every time in TimeValues, for     *)
(* geometries of 1..MaxMapTimeSteps time steps                              *)

InitTime ==
  /\ numTimeSteps \in 1..MaxMapTimeSteps
  /\ triangles = <<>>
  /\ vertices = <<>> /\ vertices0 = <<>> /\ writes = 0 /\ garbage = NaN
  /\ NoCurve /\ NoThreads
  /\ call = NoCall

TimeSampleCall ==
  \E time \in TimeValues :
    /\ call' = [op |-> "timeSample", time |-> time, ret |-> TimeSample(time)]
    /\ UNCHANGED <<meshVars, garbage, curveVars, writer, readers>>

NextTime == TimeSampleCall

SpecTime == InitTime /\ [][NextTime]_vars

\* what the claim says of one mapped time
MapTimePost(time, r) ==
  LET numSegments == numTimeSteps - 1
      scaled      == fmul(clamp(time, Float(0), Float(1)), Float(numSegments))
  IN  /\ 0 <= r.itime0 /\ r.itime0 <= numSegments - 1
      /\ r.itime1 = r.itime0 + 1
      /\ r.itime1 <= numTimeSteps - 1
      /\ r.ftime = fsub(scaled, Float(r.itime0))

MapTimeExamples(time, r) ==
  numTimeSteps = 4 =>
    /\ time = Float(0) => (r.itime0 = 0 /\ r.ftime = Float(0))
    /\ time = Float(1) => (r.itime0 = 2 /\ r.ftime = Float(1))
    /\ time = Frac(1, 2) => (r.itime0 = 1 /\ r.ftime = Frac(1, 2))

\* C5 (as stated): for every numTimeSteps >= 1 and every time, inside or
\* outside [0,1], the mapped segment is in 0..numSegments-1, segment+1 is a
\* valid time step, and fraction = scaled - segment; with numTimeSteps = 4,
\* time 0 maps to (0,0), time 1 to (2,1) and time 0.5 to (1,0.5).
C5_Original ==
  call.op = "timeSample" =>
    (MapTimePost(call.time, call.ret) /\ MapTimeExamples(call.time, call.ret))

\* C5 (amended): the same for every numTimeSteps >= 2; a geometry with one
\* time step has no segment, and the mapping then yields segment 0, whose
\* successor step 1 does not exist.
C5_TimeMapping ==
  (call.op = "timeSample" /\ numTimeSteps >= 2) =>
    (MapTimePost(call.time, call.ret) /\ MapTimeExamples(call.time, call.ret))

C5_Witness ==
  /\ call.op = "timeSample"
  /\ numTimeSteps = 4
  /\ call.time = Float(1)
  /\ call.ret.itime0 = 2
  /\ call.ret.ftime = Float(1)

-----------------------------------------------------------------------------
(* SpecMesh: a mesh of three vertices and one triangle, its vertex buffers   *)
(* updated by the application and queried for bounds and validity           *)

\* the triangles given to the mesh: index 3 is outside the vertex buffer
MeshTriangles == {<<0, 1, 2>>, <<2, 0, 0>>, <<3, 1, 2>>, <<0, 3, 2>>, <<0, 1, 3>>}

\* the vertex coordinates the application writes
VertexValues == {Float(0), Float(1), NaN}

\* what a read outside a buffer may yield
GarbageValues == {Float(-1), NaN}

\* a box an output parameter holds before the call (the empty box)
EmptyBox == BBox(Float(9), Float(-9))

\* a vertex buffer the application has filled with zeros
ZeroVertices == [v \in 0..2 |-> Float(0)]

\* TriangleMesh(parent, flags, numTriangles = 1, numVertices = 3, numTimeSteps)
\* with every time step's vertex buffer holding content
MeshConstructed(tris, steps, content) ==
  /\ numTimeSteps \in steps
  /\ triangles \in {<<t>> : t \in tris}
  /\ vertices = [t \in 0..numTimeSteps - 1 |-> content]
  /\ vertices0 = vertices[0]
  /\ writes = 0
  /\ garbage \in GarbageValues

InitMesh ==
  /\ MeshConstructed(MeshTriangles, 1..MaxTimeSteps, ZeroVertices)
  /\ NoCurve /\ NoThreads
  /\ call = NoCall

\* the application updates a vertex of one time step; the update ends with
\* the refresh of the cached view of the first time step
SetVertex ==
  \E t \in 0..numTimeSteps - 1, v \in 0..2, x \in VertexValues :
    /\ writes < MaxWrites
    /\ writes' = writes + 1
    /\ vertices' = [vertices EXCEPT ![t][v] = x]
    /\ vertices0' = vertices'[0]
    /\ call' = NoCall
    /\ UNCHANGED <<numTimeSteps, triangles, garbage, curveVars, writer, readers>>

BoundsCall ==
  \E itime \in 0..numTimeSteps - 1 :
    /\ call.op = "none"
    /\ call' = [op |-> "bounds", itime |-> itime, ret |-> bounds(0, itime)]
    /\ UNCHANGED <<meshVars, garbage, curveVars, writer, readers>>

ValidCall ==
  \E lo \in 0..numTimeSteps - 1, hi \in 0..numTimeSteps - 1 :
    /\ call.op = "none"
    /\ lo <= hi
    /\ call' = [op |-> "valid", lo |-> lo, hi |-> hi, ret |-> valid(0, lo, hi)]
    /\ UNCHANGED <<meshVars, garbage, curveVars, writer, readers>>

BuildBoundsCall ==
  \E hasBox \in BOOLEAN :
    /\ call.op = "none"
    /\ call' = [op |-> "buildBounds", hasBox |-> hasBox,
                ret |-> buildBounds(0, hasBox, EmptyBox)]
    /\ UNCHANGED <<meshVars, garbage, curveVars, writer, readers>>

NextMesh == SetVertex \/ BoundsCall \/ ValidCall \/ BuildBoundsCall

SpecMesh == InitMesh /\ [][NextMesh]_vars

(* Claims about bounds and validity *)

InRange(tri) == \A k \in 1..3 : tri[k] < numVertices
FiniteAt(tri, itime) == \A k \in 1..3 : isfinite(vertices[itime][tri[k]])
ValidAt(tri, itime) == InRange(tri) /\ FiniteAt(tri, itime)

\* lo is the least and up the greatest of the values ps
IsMinMax(lo, up, ps) ==
  /\ lo \in ps /\ \A p \in ps : fle(lo, p)
  /\ up \in ps /\ \A p \in ps : fle(p, up)

\* C9 (as stated): for every triangle and time step, bounds(i,itime)
\* contains the three vertex positions of the triangle at that step, and
\* its lower and upper are their minimum and maximum.
\* (A triangle with an index outside the vertex buffer has no such position:
\* the statement is taken for the triangles whose indices are in range.)
C9_Original ==
  (call.op = "bounds" /\ InRange(triangle(0))) =>
    LET tri == triangle(0)
        ps  == {vertices[call.itime][tri[k]] : k \in 1..3}
    IN  IsMinMax(call.ret.lower, call.ret.upper, ps)

\* C9 (amended): the same for every triangle that is valid at the step
\* (indices below numVertices, the three vertices finite); a non-finite
\* vertex is contained in no box.
C9_BoundsContainVertices ==
  (call.op = "bounds" /\ ValidAt(triangle(0), call.itime)) =>
    LET tri == triangle(0)
        ps  == {vertices[call.itime][tri[k]] : k \in 1..3}
    IN  IsMinMax(call.ret.lower, call.ret.upper, ps)

C9_Witness ==
  /\ call.op = "bounds"
  /\ triangle(0) = <<0, 1, 2>>
  /\ ValidAt(triangle(0), call.itime)
  /\ call.itime = 1
  /\ call.ret = BBox(Float(0), Float(1))

\* C4: valid(i, lower, upper) is true iff valid(i, itime) is true for every
\* step of lower..upper; valid(i, itime) is true iff the three indices are
\* below numVertices and the three vertices are finite at the step; with an
\* index >= numVertices it is false and no vertex is read.
C4_Valid ==
  call.op = "valid" =>
    LET tri == triangle(0)
    IN  /\ call.ret.ret <=> \A itime \in call.lo..call.hi : valid1(0, itime).ret
        /\ \A itime \in call.lo..call.hi :
             valid1(0, itime).ret <=> ValidAt(tri, itime)
        /\ ~InRange(tri) => (~call.ret.ret /\ call.ret.reads = {})
        /\ \A rd \in call.ret.reads :
             rd[1] < numVertices /\ rd[2] \in call.lo..call.hi

C4_Witness ==
  /\ call.op = "valid"
  /\ call.lo = 0 /\ call.hi = 1
  /\ InRange(triangle(0))
  /\ FiniteAt(triangle(0), 0) /\ ~FiniteAt(triangle(0), 1)
  /\ ~call.ret.ret

\* C6: buildBounds(i, bbox) returns true exactly when the triangle is valid
\* at every time step; when it returns false *bbox is unchanged; when it
\* returns true and bbox is non-null, *bbox is the bound of the triangle at
\* the first time step.
C6_BuildBounds ==
  call.op = "buildBounds" =>
    LET tri == triangle(0)
        ok  == \A itime \in 0..numTimeSteps - 1 : ValidAt(tri, itime)
    IN  /\ call.ret.ret <=> ok
        /\ call.ret.ret <=> valid(0, 0, numTimeSteps - 1).ret
        /\ ~call.ret.ret => call.ret.bbox = EmptyBox
        /\ (call.ret.ret /\ call.hasBox) =>
             /\ call.ret.bbox = bounds(0, 0)
             /\ IsMinMax(call.ret.bbox.lower, call.ret.bbox.upper,
                         {vertices[0][tri[k]] : k \in 1..3})
        /\ (call.ret.ret /\ ~call.hasBox) => call.ret.bbox = EmptyBox

C6_Witness ==
  /\ call.op = "buildBounds"
  /\ call.hasBox
  /\ ~call.ret.ret
  /\ InRange(triangle(0))
  /\ numTimeSteps = 2
  /\ FiniteAt(triangle(0), 0) /\ ~FiniteAt(triangle(0), 1)

-----------------------------------------------------------------------------
(* SpecLinear: the linear bounds of a triangle of a motion-blurred mesh      *)
(* (2..MaxTimeSteps time steps) over time ranges inside and outside [0,1]   *)

LinearTriangles == {<<0, 1, 2>>}

\* the ends of the time ranges asked for
RangeTimes == {Frac(-1, 2), Float(0), Frac(1, 4), Frac(1, 2), Frac(3, 4),
               Float(1), Frac(3, 2)}

TimeRanges == {r \in RangeTimes \X RangeTimes :
                 flt(r[1], r[2]) /\ flt(r[1], Float(1)) /\ flt(Float(0), r[2])}

\* an LBBox an output parameter holds before the call
EmptyLBox == [b0 |-> EmptyBox, b1 |-> EmptyBox]

\* the vertex buffer of every time step holds a triangle that spans [0, 1],
\* so that one update can move either bound of a step
SpanVertices == [v \in 0..2 |-> IF v = 2 THEN Float(1) ELSE Float(0)]

InitLinear ==
  /\ MeshConstructed(LinearTriangles, 2..MaxTimeSteps, SpanVertices)
  /\ NoCurve /\ NoThreads
  /\ call = NoCall

LinearBoundsCall ==
  \E r \in TimeRanges :
    /\ call.op = "none"
    /\ call' = [op |-> "linearBounds", lower |-> r[1], upper |-> r[2],
                ret |-> linearBounds(0, r[1], r[2]),
                steps |-> linearBoundsSteps(r[1], r[2])]
    /\ UNCHANGED <<meshVars, garbage, curveVars, writer, readers>>

LinearBoundsCheckedCall ==
  \E r \in TimeRanges :
    /\ call.op = "none"
    /\ call' = [op |-> "linearBoundsChecked", lower |-> r[1], upper |-> r[2],
                ret |-> linearBoundsChecked(0, r[1], r[2], EmptyLBox)]
    /\ UNCHANGED <<meshVars, garbage, curveVars, writer, readers>>

NextLinear == SetVertex \/ LinearBoundsCall \/ LinearBoundsCheckedCall

SpecLinear == InitLinear /\ [][NextLinear]_vars

(* Claims about linear bounds *)

StepsOf == 0..numTimeSteps - 1

\* the parametric time of step itime lies in [lower, upper]
StepInRange(itime, lower, upper) ==
  LET t == fdiv(Float(itime), fnumTimeSegments)
  IN  fle(lower, t) /\ fle(t, upper)

\* the box the linear bound lb over [lower, upper] gives at step itime
\* contains the box of the step
ContainsStep(lb, lower, upper, itime) ==
  LET f   == fdiv(fsub(fdiv(Float(itime), fnumTimeSegments), lower),
                  fsub(upper, lower))
      box == lerpBox(lb.b0, lb.b1, f)
      bi  == bounds(0, itime)
  IN  fle(box.lower, bi.lower) /\ fle(bi.upper, box.upper)

InsideUnit(lower, upper) == fle(Float(0), lower) /\ fle(upper, Float(1))

feq(a, b) == fle(a, b) /\ fle(b, a)

\* the end boxes bounds(i, t0) and bounds(i, t1) the loop starts from
StartBoxes(lower, upper) ==
  [b0 |-> boundsTime(0, lower), b1 |-> boundsTime(0, upper)]

\* lb contains the boxes of st, and lb - st is the same at both ends
GrownBySame(lb, st) ==
  /\ fle(lb.b0.lower, st.b0.lower) /\ fle(st.b0.upper, lb.b0.upper)
  /\ fle(lb.b1.lower, st.b1.lower) /\ fle(st.b1.upper, lb.b1.upper)
  /\ feq(fsub(lb.b0.lower, st.b0.lower), fsub(lb.b1.lower, st.b1.lower))
  /\ feq(fsub(lb.b0.upper, st.b0.upper), fsub(lb.b1.upper, st.b1.upper))

FiniteBox(b) == isfinite(b.lower) /\ isfinite(b.upper)

\* C12 (as stated): for every triangle and range, the b0 and b1 that
\* linearBounds returns contain bounds(i,t0) and bounds(i,t1), and
\* b0 - bounds(i,t0) equals b1 - bounds(i,t1) on lower and on upper.
C12_Original ==
  call.op = "linearBounds" =>
    GrownBySame(call.ret, StartBoxes(call.lower, call.upper))

\* C12 (amended): the same when the end boxes bounds(i,t0) and bounds(i,t1)
\* are finite: the lower bounds of both returned boxes lie below the end
\* boxes' by one amount, the upper bounds above by one amount. A non-finite
\* end box is returned as it is and contains nothing.
C12_CorrectionSymmetric ==
  (/\ call.op = "linearBounds"
   /\ FiniteBox(StartBoxes(call.lower, call.upper).b0)
   /\ FiniteBox(StartBoxes(call.lower, call.upper).b1)) =>
    GrownBySame(call.ret, StartBoxes(call.lower, call.upper))

\* the step in the middle of [0,1] reaches above the interpolation of the
\* end boxes by 1/2: both upper bounds are raised by 1/2
C12_Witness ==
  /\ call.op = "linearBounds"
  /\ call.lower = Float(0) /\ call.upper = Float(1)
  /\ numTimeSteps = 3
  /\ StartBoxes(call.lower, call.upper) =
       [b0 |-> BBox(Float(0), Float(0)), b1 |-> BBox(Float(0), Float(1))]
  /\ bounds(0, 1) = BBox(Float(0), Float(1))
  /\ call.ret = [b0 |-> BBox(Float(0), Frac(1, 2)),
                 b1 |-> BBox(Float(0), Frac(3, 2))]

\* C7: for a range whose lower end is < 0 or whose upper end is > 1, both
\* linearBounds read only time steps 0..numTimeSteps-1 and give the result
\* of the range clamped to [0,1].
C7_Original ==
  LET lo == clamp(call.lower, Float(0), Float(1))
      up == clamp(call.upper, Float(0), Float(1))
  IN  /\ (call.op = "linearBounds" /\ ~InsideUnit(call.lower, call.upper)) =>
           /\ call.steps \subseteq StepsOf
           /\ call.ret = linearBounds(0, lo, up)
      /\ (call.op = "linearBoundsChecked" /\ ~InsideUnit(call.lower, call.upper)) =>
           /\ call.ret.steps \subseteq StepsOf
           /\ call.ret.ret = linearBoundsChecked(0, lo, up, EmptyLBox).ret
           /\ call.ret.bbox = linearBoundsChecked(0, lo, up, EmptyLBox).bbox

\* C13: whenever linearBounds(i, time_range, bbox) returns true for a range
\* within [0,1], every time step the bound computation reads (the
\* bracketing steps of both ends and the steps between) lies in the range
\* itime_lower..itime_upper that valid() checked, the triangle is valid at
\* every such step, and the returned boxes are finite.
C13_Original ==
  (/\ call.op = "linearBoundsChecked"
   /\ InsideUnit(call.lower, call.upper)
   /\ call.ret.ret) =>
    /\ linearBoundsSteps(call.lower, call.upper)
         \subseteq call.ret.checked[1]..call.ret.checked[2]
    /\ \A s \in linearBoundsSteps(call.lower, call.upper) :
         ValidAt(triangle(0), s)
    /\ FiniteBox(call.ret.bbox.b0) /\ FiniteBox(call.ret.bbox.b1)

-----------------------------------------------------------------------------
(* SpecCurve: one curve of four control points with 2..MaxTimeSteps time     *)
(* steps, its attribute buffers updated and gathered at continuous times    *)

\* the attribute values the application writes
CurveValues == {Float(1), NaN}

\* the times gathered at: every sampled step, a time between two steps and a
\* time outside [0,1]
CurveTimes ==
  {Frac(k, numTimeSteps - 1) : k \in 0..numTimeSteps - 1}
    \cup {Frac(1, 4), Frac(3, 2)}

InitCurve ==
  /\ numTimeSteps \in 2..MaxTimeSteps
  /\ triangles = <<>>
  /\ vertices = <<>> /\ vertices0 = <<>> /\ writes = 0 /\ garbage = NaN
  /\ cvertices = [t \in 0..numTimeSteps - 1 |-> [i \in 0..3 |-> Float(0)]]
  /\ cnormals  = [t \in 0..numTimeSteps - 1 |-> [i \in 0..1 |-> Float(0)]]
  /\ ctangents = [t \in 0..numTimeSteps - 1 |-> [i \in 0..1 |-> Float(0)]]
  /\ NoThreads
  /\ call = NoCall

SetCurveVertex ==
  \E t \in 0..numTimeSteps - 1, i \in 0..3, x \in CurveValues :
    /\ writes < MaxCurveWrites
    /\ writes' = writes + 1
    /\ cvertices' = [cvertices EXCEPT ![t][i] = x]
    /\ call' = NoCall
    /\ UNCHANGED <<numTimeSteps, triangles, vertices, vertices0, garbage,
                   cnormals, ctangents, writer, readers>>

SetCurveNormal ==
  \E t \in 0..numTimeSteps - 1, i \in 0..1, x \in CurveValues :
    /\ writes < MaxCurveWrites
    /\ writes' = writes + 1
    /\ cnormals' = [cnormals EXCEPT ![t][i] = x]
    /\ call' = NoCall
    /\ UNCHANGED <<numTimeSteps, triangles, vertices, vertices0, garbage,
                   cvertices, ctangents, writer, readers>>

SetCurveTangent ==
  \E t \in 0..numTimeSteps - 1, i \in 0..1, x \in CurveValues :
    /\ writes < MaxCurveWrites
    /\ writes' = writes + 1
    /\ ctangents' = [ctangents EXCEPT ![t][i] = x]
    /\ call' = NoCall
    /\ UNCHANGED <<numTimeSteps, triangles, vertices, vertices0, garbage,
                   cvertices, cnormals, writer, readers>>

GatherCall ==
  \E kind \in GatherKinds, time \in CurveTimes :
    /\ call.op = "none"
    /\ call' = [op |-> "gather", kind |-> kind, time |-> time,
                ret |-> GatherTime(kind, 0, time)]
    /\ UNCHANGED <<meshVars, garbage, curveVars, writer, readers>>

NextCurve == SetCurveVertex \/ SetCurveNormal \/ SetCurveTangent \/ GatherCall

SpecCurve == InitCurve /\ [][NextCurve]_vars

(* Claims about gathers *)

\* C8 (as stated): a gather at a time mapped to fraction 0 returns, for every
\* gathered value, the value of the gather at step itime, and at fraction 1
\* that of the gather at step itime+1.
C8_Original ==
  call.op = "gather" =>
    LET s == TimeSample(call.time)
    IN  /\ s.ftime = Float(0) => call.ret = GatherStep(call.kind, 0, s.itime0)
        /\ s.ftime = Float(1) => call.ret = GatherStep(call.kind, 0, s.itime1)

\* C8 (amended): the same for every gathered value whose samples at the two
\* bracketing steps are both finite; the sample of the other step enters
\* with weight 0, and 0 times a non-finite value is not 0.
C8_GatherOnStep ==
  call.op = "gather" =>
    LET s == TimeSample(call.time)
        a == GatherStep(call.kind, 0, s.itime0)
        b == GatherStep(call.kind, 0, s.itime1)
    IN  \A k \in DOMAIN call.ret :
          (isfinite(a[k]) /\ isfinite(b[k])) =>
            /\ s.ftime = Float(0) => call.ret[k] = a[k]
            /\ s.ftime = Float(1) => call.ret[k] = b[k]

\* a gather with normals on the interior step 1 of three, where the first
\* normal differs between steps 1 and 2
C8_Witness ==
  /\ call.op = "gather"
  /\ call.kind = "gatherN"
  /\ numTimeSteps = 3
  /\ call.time = Frac(1, 2)
  /\ TimeSample(call.time).ftime = Float(0)
  /\ cnormals[1][0] = Float(1) /\ cnormals[2][0] = Float(0)
  /\ call.ret[5] = Float(1)

-----------------------------------------------------------------------------
(* Spec: a mesh of two time steps read by NumThreads query threads while     *)
(* the application commits buffer updates.  A commit is exclusive: it        *)
(* starts when no query runs, and no query starts before the cached view of *)
(* the first time step is refreshed.                                         *)

Threads == 1..NumThreads

Idle == [pc |-> "idle"]

Geometry == <<numTimeSteps, triangles, vertices, vertices0>>

NoQueryRuns == \A th \in Threads : readers[th].pc = "idle"

Init ==
  /\ MeshConstructed({<<0, 1, 2>>}, {2}, ZeroVertices)
  /\ garbage = NaN
  /\ NoCurve
  /\ call = NoCall
  /\ writer = "idle"
  /\ readers = [th \in Threads |-> Idle]

\* the commit phase: the application replaces a vertex of a buffer; the
\* cached view is stale until RefreshView
UpdateBuffer ==
  \E t \in 0..numTimeSteps - 1, v \in 0..2, x \in VertexValues :
    /\ \/ writer = "idle" /\ NoQueryRuns
       \/ writer = "dirty"
    /\ writes < MaxWrites
    /\ writes' = writes + 1
    /\ vertices' = [vertices EXCEPT ![t][v] = x]
    /\ writer' = "dirty"
    /\ UNCHANGED <<numTimeSteps, triangles, vertices0, garbage, curveVars,
                   call, readers>>

\* vertices0 = vertices[0], which ends the commit phase
RefreshView ==
  /\ writer = "dirty"
  /\ vertices0' = vertices[0]
  /\ writer' = "idle"
  /\ UNCHANGED <<numTimeSteps, triangles, vertices, writes, garbage,
                 curveVars, call, readers>>

\* a thread calls vertex(i)
VertexQuery(th) ==
  \E i \in 0..2 :
    /\ writer = "idle"
    /\ readers[th].pc = "idle"
    /\ readers' = [readers EXCEPT ![th] =
         [pc |-> "done", op |-> "vertex", i |-> i, ret |-> vertex(i),
          geom |-> Geometry]]
    /\ UNCHANGED <<meshVars, garbage, curveVars, call, writer>>

\* a thread calls bounds(0)
BoundsQueryStart(th) ==
  /\ writer = "idle"
  /\ readers[th].pc = "idle"
  /\ readers' = [readers EXCEPT ![th] =
       [pc |-> "read", op |-> "bounds", acc |-> <<>>, geom |-> Geometry]]
  /\ UNCHANGED <<meshVars, garbage, curveVars, call, writer>>

\* bounds(0) reads the next vertex of the triangle
BoundsQueryRead(th) ==
  /\ readers[th].pc = "read"
  /\ Len(readers[th].acc) < 3
  /\ readers' = [readers EXCEPT ![th].acc =
       Append(@, vertex(triangle(0)[Len(@) + 1]))]
  /\ UNCHANGED <<meshVars, garbage, curveVars, call, writer>>

\* bounds(0) returns BBox3fa(min(v0,v1,v2), max(v0,v1,v2))
BoundsQueryReturn(th) ==
  /\ readers[th].pc = "read"
  /\ Len(readers[th].acc) = 3
  /\ LET a == readers[th].acc
     IN  readers' = [readers EXCEPT ![th] =
           [pc |-> "done", op |-> "bounds",
            ret |-> BBox(min3(a[1], a[2], a[3]), max3(a[1], a[2], a[3])),
            geom |-> readers[th].geom]]
  /\ UNCHANGED <<meshVars, garbage, curveVars, call, writer>>

\* the caller takes the result
QueryDone(th) ==
  /\ readers[th].pc = "done"
  /\ readers' = [readers EXCEPT ![th] = Idle]
  /\ UNCHANGED <<meshVars, garbage, curveVars, call, writer>>

Next ==
  \/ UpdateBuffer
  \/ RefreshView
  \/ \E th \in Threads : VertexQuery(th)
  \/ \E th \in Threads : BoundsQueryStart(th)
  \/ \E th \in Threads : BoundsQueryRead(th)
  \/ \E th \in Threads : BoundsQueryReturn(th)
  \/ \E th \in Threads : QueryDone(th)

Spec == Init /\ [][Next]_vars

(* Claims about concurrent queries *)

\* C10: with every buffer update and every refresh of the cached view in an
\* exclusive commit phase, in every state in which query threads run the
\* cached-view queries agree with the step-0 queries (vertex(i) =
\* vertex(i,0), bounds(i) = bounds(i,0)), every completed query returned the
\* step-0 value, and the geometry is what it was when the query started.
C10_ConcurrentQueries ==
  \A th \in Threads :
    readers[th].pc # "idle" =>
      /\ \A i \in 0..numVertices - 1 : vertex(i) = vertexAt(i, 0)
      /\ bounds0(0) = bounds(0, 0)
      /\ readers[th].geom = Geometry
      /\ readers[th].pc = "done" =>
           /\ readers[th].op = "vertex" =>
                readers[th].ret = vertexAt(readers[th].i, 0)
           /\ readers[th].op = "bounds" => readers[th].ret = bounds(0, 0)

\* two threads inside queries at once, after a commit that moved a vertex
\* of the first time step
C10_Witness ==
  /\ readers[1].pc = "done" /\ readers[1].op = "bounds"
  /\ readers[2].pc = "read" /\ Len(readers[2].acc) = 2
  /\ vertices[0][0] = Float(1) /\ vertices[1][0] = Float(0)
  /\ readers[1].ret = BBox(Float(0), Float(1))

====
